---- MODULE Spec2Model ----
(***************************************************************************)
(* The two batch scripts of the repository as one state machine.           *)
(*                                                                         *)
(*   script = "A"   src/src/preprocessing.py   (employee cleaning)         *)
(*   script = "B"   src/src/preprocessing2.py  (listings preprocessing)    *)
(*                                                                         *)
(* A run is one script executed top to bottom on one input file.  pc names *)
(* the statement that runs next; an uncaught exception (a KeyError for an  *)
(* absent column, a ValueError of the imputer) ends the run in "aborted".  *)
(*                                                                         *)
(* Representation.                                                         *)
(*  - A text cell of script A is a sequence of one-character strings, so   *)
(*    that strip() and title() are computed and not assumed.  A missing    *)
(*    text cell (float NaN in an object column) is NA.                     *)
(*  - A numeric cell of script A is an integer count of 1/Unit, Unit being *)
(*    a common multiple of every denominator a group median or a group     *)
(*    mean of at most MaxRows rows can have: the statistics are exact      *)
(*    rationals here where the scripts use float64.  A missing numeric     *)
(*    cell is NaN, and every comparison with NaN is false, as in pandas.   *)
(*  - A min-max scaled cell of script B is a fraction [num, den].          *)
(*  - pandas >= 1.5, < 3 and scikit-learn >= 1.2 semantics (the scripts    *)
(*    use OneHotEncoder(sparse_output=...)): astype(str) renders a missing *)
(*    cell of an object column as the text "nan".                          *)
(***************************************************************************)
EXTENDS Integers, Sequences, FiniteSets, TLC

\* Largest number of rows of an input file.
MaxRows == 5

----------------------------------------------------------------------------
(* Generic helpers                                                         *)

Range(s) == {s[i] : i \in DOMAIN s}

RECURSIVE SumSeq(_)
SumSeq(s) == IF s = <<>> THEN 0 ELSE Head(s) + SumSeq(Tail(s))

\* The subsequence of s at the positions in K, in increasing order.
RECURSIVE SelectFrom(_, _, _)
SelectFrom(s, K, i) ==
    IF i > Len(s) THEN <<>>
    ELSE (IF i \in K THEN <<s[i]>> ELSE <<>>) \o SelectFrom(s, K, i + 1)

SelectAt(s, K) == SelectFrom(s, K, 1)

RECURSIVE Gcd(_, _)
Gcd(a, b) == IF b = 0 THEN a ELSE Gcd(b, a % b)

RECURSIVE LcmUpTo(_)
LcmUpTo(n) == IF n <= 1 THEN 1 ELSE LET l == LcmUpTo(n - 1) IN (l * n) \div Gcd(l, n)

\* Fixed-point unit of the numeric cells of script A.
Unit == 2 * LcmUpTo(MaxRows)

\* float NaN of a numeric column.
NaN == -1

\* float NaN in an object (text) column.
NA == <<"NaN">>

----------------------------------------------------------------------------
(* Text cells: Python's str methods on sequences of characters             *)

LowerCase == <<"a","b","c","d","e","f","g","h","i","j","k","l","m",
               "n","o","p","q","r","s","t","u","v","w","x","y","z">>

UpperCase == <<"A","B","C","D","E","F","G","H","I","J","K","L","M",
               "N","O","P","Q","R","S","T","U","V","W","X","Y","Z">>

\* The characters of the model in code-point order (space < A-Z < a-z).
CodePoints == <<" ">> \o UpperCase \o LowerCase

Ord(c) == CHOOSE i \in DOMAIN CodePoints : CodePoints[i] = c

IsLower(c) == c \in Range(LowerCase)
IsUpper(c) == c \in Range(UpperCase)
IsCased(c) == IsLower(c) \/ IsUpper(c)

ToUpper(c) ==
    IF IsLower(c) THEN UpperCase[CHOOSE i \in DOMAIN LowerCase : LowerCase[i] = c] ELSE c

ToLower(c) ==
    IF IsUpper(c) THEN LowerCase[CHOOSE i \in DOMAIN UpperCase : UpperCase[i] = c] ELSE c

\* str.strip(): leading and trailing whitespace removed.
RECURSIVE LStrip(_)
LStrip(s) == IF s # <<>> /\ Head(s) = " " THEN LStrip(Tail(s)) ELSE s

RECURSIVE RStrip(_)
RStrip(s) ==
    IF s # <<>> /\ s[Len(s)] = " " THEN RStrip(SubSeq(s, 1, Len(s) - 1)) ELSE s

Strip(s) == RStrip(LStrip(s))

\* str.title(): a cased character is upper-cased when it follows an uncased
\* one (or starts the string) and lower-cased otherwise.
Title(s) ==
    [i \in DOMAIN s |->
        IF i = 1 \/ ~IsCased(s[i - 1]) THEN ToUpper(s[i]) ELSE ToLower(s[i])]

\* astype(str) on an object column: a missing cell becomes the text "nan".
AsStr(x) == IF x = NA THEN <<"n","a","n">> ELSE x

\* Python's < on str: lexicographic by code point.
RECURSIVE StrLess(_, _)
StrLess(a, b) ==
    IF b = <<>> THEN FALSE
    ELSE IF a = <<>> THEN TRUE
    ELSE IF Head(a) = Head(b) THEN StrLess(Tail(a), Tail(b))
    ELSE Ord(Head(a)) < Ord(Head(b))

\* Series.mode() restricted to its first entry, mode()[0]: the most frequent
\* non-missing value, the smallest one on a tie (mode() returns them sorted).
\* xs is the sequence of cells; only called where mode() is not empty.
Count(xs, x) == Cardinality({i \in DOMAIN xs : xs[i] = x})

ModeSet(xs, missing) ==
    LET vals == Range(xs) \ {missing}
    IN  {x \in vals : \A y \in vals : Count(xs, y) <= Count(xs, x)}

TextMode0(xs) ==
    LET m == ModeSet(xs, NA)
    IN  CHOOSE x \in m : \A y \in m : y = x \/ StrLess(x, y)

NumMode0(xs) ==
    LET m == ModeSet(xs, NaN)
    IN  CHOOSE x \in m : \A y \in m : x <= y

----------------------------------------------------------------------------
(* Numeric cells                                                           *)

NotNull(xs, missing) == SelectAt(xs, {i \in DOMAIN xs : xs[i] # missing})

Sorted(xs) == SortSeq(xs, LAMBDA a, b : a < b)

\* Series.median(): NaN skipped; the middle value, or the mean of the two
\* middle values; NaN when nothing is left.
Median(xs) ==
    LET v == Sorted(NotNull(xs, NaN))
        n == Len(v)
    IN  IF n = 0 THEN NaN
        ELSE IF n % 2 = 1 THEN v[(n + 1) \div 2]
        ELSE (v[n \div 2] + v[n \div 2 + 1]) \div 2

\* Series.mean(): NaN skipped; NaN when nothing is left.
Mean(xs) ==
    LET v == NotNull(xs, NaN)
    IN  IF v = <<>> THEN NaN ELSE SumSeq(v) \div Len(v)

\* fillna(value): a missing cell takes value (fillna(NaN) changes nothing).
FillNa(x, missing, value) == IF x = missing THEN value ELSE x

\* 4 * Series.quantile(k/4), linear interpolation between order statistics:
\* position h = (n-1)*k/4, value v[floor h] + frac(h) * (v[floor h + 1] - v[floor h])
\* (v indexed from 0 there, from 1 here).  Only called on a non-empty column.
Quantile4(xs, k) ==
    LET v  == Sorted(NotNull(xs, NaN))
        n  == Len(v)
        lo == ((n - 1) * k) \div 4
        r  == ((n - 1) * k) % 4
    IN  IF r = 0 THEN 4 * v[lo + 1]
        ELSE 4 * v[lo + 1] + r * (v[lo + 2] - v[lo + 1])

----------------------------------------------------------------------------
(* Script A: data frames                                                   *)
(*                                                                         *)
(* A frame is [cols: the set of column names, rows: a sequence of          *)
(* [idx: the row's index label, v: column name -> cell]].                  *)

\* The columns script A refers to by name (lines 49-96, 120).
EmployeeCols == {"Company", "Place", "Age", "Salary", "Gender"}

\* Columns that read_csv infers as object when they hold any text.
TextCols == {"Company", "Place", "Country"}

Col(d, c) == [i \in DOMAIN d.rows |-> d.rows[i].v[c]]

Missing(c) == IF c \in TextCols \/ c \in {"Seniority"} THEN NA ELSE NaN

\* Series.nunique(): the number of distinct non-missing values.
NUnique(d, c) == Cardinality(Range(Col(d, c)) \ {Missing(c)})

\* dtype after read_csv: object for a text column with at least one value,
\* int64 for a numeric column without a missing cell, float64 otherwise.
DType(d, c) ==
    IF c \in TextCols
    THEN (IF \E i \in DOMAIN d.rows : d.rows[i].v[c] # NA THEN "object" ELSE "float64")
    ELSE (IF \E i \in DOMAIN d.rows : d.rows[i].v[c] = NaN THEN "float64" ELSE "int64")

\* df[c] = f: column c replaced (or added); f maps a row's position to its
\* new cell.
SetCol(d, c, f) ==
    [cols |-> d.cols \cup {c},
     rows |-> [i \in DOMAIN d.rows |->
                 [idx |-> d.rows[i].idx,
                  v   |-> [k \in d.cols \cup {c} |->
                             IF k = c THEN f[i] ELSE d.rows[i].v[k]]]]]

\* df.drop(columns=...).
DropCols(d, drop) ==
    [cols |-> d.cols \ drop,
     rows |-> [i \in DOMAIN d.rows |->
                 [idx |-> d.rows[i].idx,
                  v   |-> [k \in d.cols \ drop |-> d.rows[i].v[k]]]]]

\* df[mask]: the rows at the positions in K, in order, index labels kept.
FilterRows(d, K) ==
    [cols |-> d.cols, rows |-> SelectAt(d.rows, K)]

\* Comparisons of a numeric cell with a number: false on NaN.
Ge(x, y) == x # NaN /\ x >= y
Le(x, y) == x # NaN /\ x <= y

----------------------------------------------------------------------------
(* Script A: the statements, as functions of the frame                     *)

Unknown   == <<"U","n","k","n","o","w","n">>
Male      == <<"M","a","l","e">>
Female    == <<"F","e","m","a","l","e">>
Junior    == <<"J","u","n","i","o","r">>
Mid       == <<"M","i","d">>
Senior    == <<"S","e","n","i","o","r">>
Executive == <<"E","x","e","c","u","t","i","v","e">>

\* Age range of the validation step, in years.
MinAge == 18
MaxAge == 65
\* Lowest accepted salary.
MinSalary == 1000

\* STEP 3: columns with at most one distinct non-missing value.
useless_cols(d) == {c \in d.cols : NUnique(d, c) <= 1}

DropUseless(d) == IF useless_cols(d) # {} THEN DropCols(d, useless_cols(d)) ELSE d

\* STEP 4: astype(str).str.strip().str.title() on one cell.
CleanCell(x) == Title(Strip(AsStr(x)))

\* STEP 4: every object column is cleaned.
CleanText(d) ==
    [cols |-> d.cols,
     rows |-> [i \in DOMAIN d.rows |->
                 [idx |-> d.rows[i].idx,
                  v   |-> [k \in d.cols |->
                             IF DType(d, k) = "object"
                             THEN CleanCell(d.rows[i].v[k])
                             ELSE d.rows[i].v[k]]]]]

\* STEP 5, Company: filled with the column's mode when a cell is missing.
FillCompanyMode(d) ==
    IF \E i \in DOMAIN d.rows : d.rows[i].v["Company"] = NA
    THEN SetCol(d, "Company",
                [i \in DOMAIN d.rows |->
                    FillNa(d.rows[i].v["Company"], NA, TextMode0(Col(d, "Company")))])
    ELSE d

\* df.groupby("Company")[c]: the group of row i is the rows sharing its
\* Company, in frame order; GroupCells is the group's column c, GroupPlace the
\* place of row i in it.  A row with a missing key is in no group.
GroupMembers(d, i) ==
    SelectAt([j \in DOMAIN d.rows |-> j],
             {j \in DOMAIN d.rows : d.rows[j].v["Company"] = d.rows[i].v["Company"]})

GroupCells(d, i, c) ==
    [m \in DOMAIN GroupMembers(d, i) |-> d.rows[GroupMembers(d, i)[m]].v[c]]

GroupPlace(d, i) == CHOOSE m \in DOMAIN GroupMembers(d, i) : GroupMembers(d, i)[m] = i

\* fill_place(x): the group's mode, or "Unknown" when mode() is empty.
fill_place(x) ==
    IF ModeSet(x, NA) # {}
    THEN [m \in DOMAIN x |-> FillNa(x[m], NA, TextMode0(x))]
    ELSE [m \in DOMAIN x |-> FillNa(x[m], NA, Unknown)]

\* line 65: transform(fill_place) scatters each group's result back to its
\* rows; a row in no group gets a missing cell.
FillPlace(d) ==
    SetCol(d, "Place",
           [i \in DOMAIN d.rows |->
               IF d.rows[i].v["Company"] = NA THEN NA
               ELSE fill_place(GroupCells(d, i, "Place"))[GroupPlace(d, i)]])

\* lambda x: x.fillna(x.median())
fill_median(x) == [m \in DOMAIN x |-> FillNa(x[m], NaN, Median(x))]

\* line 69
FillAge(d) ==
    SetCol(d, "Age",
           [i \in DOMAIN d.rows |->
               IF d.rows[i].v["Company"] = NA THEN NaN
               ELSE fill_median(GroupCells(d, i, "Age"))[GroupPlace(d, i)]])

\* lambda x: x.fillna(x.mean())
fill_mean(x) == [m \in DOMAIN x |-> FillNa(x[m], NaN, Mean(x))]

\* line 73
FillSalary(d) ==
    SetCol(d, "Salary",
           [i \in DOMAIN d.rows |->
               IF d.rows[i].v["Company"] = NA THEN NaN
               ELSE fill_mean(GroupCells(d, i, "Salary"))[GroupPlace(d, i)]])

\* STEP 6: .map({0: "Male", 1: "Female"}); any other code becomes missing.
GenderLabel(g) == IF g = 0 THEN Male ELSE IF g = 1 THEN Female ELSE NA

ConvertGender(d) ==
    IF DType(d, "Gender") \in {"int64", "float64"}
    THEN SetCol(d, "Gender", [i \in DOMAIN d.rows |-> GenderLabel(d.rows[i].v["Gender"])])
    ELSE d

\* Faulty variant of drop_duplicates: only a row equal to the row just before
\* it is dropped (uniq-style).  C9 fails with it.
drop_adjacent_duplicates(d) ==
    FilterRows(d, {i \in DOMAIN d.rows : ~(i > 1 /\ d.rows[i - 1].v = d.rows[i].v)})

\* STEP 7: drop_duplicates(): a row equal in every column to an earlier row
\* is dropped (missing cells compare equal).
drop_duplicates(d) ==
    FilterRows(d, {i \in DOMAIN d.rows : ~\E j \in 1..(i - 1) : d.rows[j].v = d.rows[i].v})

\* Faulty variant of the age filter: the upper bound is not tested.  C10 fails with it.
AgeInRange_NoUpper(d) ==
    FilterRows(d, {i \in DOMAIN d.rows : Ge(d.rows[i].v["Age"], MinAge * Unit)})

AgeInRange(d) ==
    FilterRows(d, {i \in DOMAIN d.rows : /\ Ge(d.rows[i].v["Age"], MinAge * Unit)
                                         /\ Le(d.rows[i].v["Age"], MaxAge * Unit)})

SalaryAtLeast(d) ==
    FilterRows(d, {i \in DOMAIN d.rows : Ge(d.rows[i].v["Salary"], MinSalary * Unit)})

\* dropna(subset=["Company", "Place", "Gender"])
DropNa(d) ==
    FilterRows(d, {i \in DOMAIN d.rows : /\ d.rows[i].v["Company"] # NA
                                         /\ d.rows[i].v["Place"] # NA
                                         /\ d.rows[i].v["Gender"] # NA})

\* STEP 7 as a whole, lines 85-96.
ValidateFilter(d) == DropNa(SalaryAtLeast(AgeInRange(drop_duplicates(d))))

\* STEP 8: the locals of remove_outliers_iqr, times 8:
\*   lower = Q1 - 1.5*(Q3 - Q1) = (5*4Q1 - 3*4Q3) / 8
\*   upper = Q3 + 1.5*(Q3 - Q1) = (5*4Q3 - 3*4Q1) / 8
\* On an empty column quantile() is NaN and so are both bounds.
IqrBounds(data, column) ==
    IF NotNull(Col(data, column), NaN) = <<>>
    THEN [nan |-> TRUE, lower8 |-> 0, upper8 |-> 0]
    ELSE LET q1 == Quantile4(Col(data, column), 1)
             q3 == Quantile4(Col(data, column), 3)
         IN  [nan |-> FALSE, lower8 |-> 5 * q1 - 3 * q3, upper8 |-> 5 * q3 - 3 * q1]

Within(x, b) == x # NaN /\ ~b.nan /\ 8 * x >= b.lower8 /\ 8 * x <= b.upper8

\* Faulty variant of remove_outliers_iqr: the lower bound is not tested.  C5 fails
\* with it.
remove_outliers_upper_only(data, column) ==
    FilterRows(data, {i \in DOMAIN data.rows :
        LET b == IqrBounds(data, column)
        IN  data.rows[i].v[column] # NaN /\ ~b.nan /\ 8 * data.rows[i].v[column] <= b.upper8})

remove_outliers_iqr(data, column) ==
    FilterRows(data, {i \in DOMAIN data.rows :
                         Within(data.rows[i].v[column], IqrBounds(data, column))})

\* STEP 9: pd.cut(bins=[17, 25, 35, 50, 65]), right-closed bins; an age in no
\* bin (or missing) gets a missing label.
Cut(age) ==
    IF age = NaN THEN NA
    ELSE IF 17 * Unit < age /\ age <= 25 * Unit THEN Junior
    ELSE IF 25 * Unit < age /\ age <= 35 * Unit THEN Mid
    ELSE IF 35 * Unit < age /\ age <= 50 * Unit THEN Senior
    ELSE IF 50 * Unit < age /\ age <= 65 * Unit THEN Executive
    ELSE NA

AddSeniority(d) == SetCol(d, "Seniority", [i \in DOMAIN d.rows |-> Cut(d.rows[i].v["Age"])])

----------------------------------------------------------------------------
(* Script A: input files                                                   *)

tcs      == <<"t","c","s">>
Tcs      == <<"T","c","s">>
TcsPad   == <<" ","T","c","s"," ">>
infosys  == <<"i","n","f","o","s","y","s">>
Infosys  == <<"I","n","f","o","s","y","s">>
Mumbai   == <<"M","u","m","b","a","i">>
mumbai   == <<"m","u","m","b","a","i">>
Delhi    == <<"D","e","l","h","i">>
NewDelhi == <<"n","e","w"," ","d","e","l","h","i">>
India    == <<"I","n","d","i","a">>
NanText  == <<"N","a","n">>

Years(a)  == IF a = NaN THEN NaN ELSE a * Unit
Rupees(s) == IF s = NaN THEN NaN ELSE s * Unit

\* One line of Employee.csv.
Emp(company, place, age, salary, gender) ==
    [Company |-> company, Place |-> place, Age |-> Years(age),
     Salary |-> Rupees(salary), Gender |-> gender]

\* The lines input files are drawn from.  Lines 1-3 are the scenario of the
\* specification; the others add a second company, missing cells in every
\* column, out-of-range ages and salaries, an unmapped gender code, lines that
\* become duplicates once cleaned, and a run of equal ages and salaries with
\* one far value each for the IQR rule.
Roster ==
    << Emp(tcs,     Mumbai,   24,  30000, 0),
       Emp(TcsPad,  NA,       NaN, 32000, 1),
       Emp(Tcs,     Mumbai,   70,  31000, 0),
       Emp(Tcs,     Delhi,    24,  30000, 1),
       Emp(infosys, Mumbai,   24,  30000, 1),
       Emp(Infosys, Delhi,    24,  90000, 0),
       Emp(Tcs,     Mumbai,   61,  30000, 1),
       Emp(infosys, NA,       30,  NaN,   2),
       Emp(Infosys, NewDelhi, 17,  500,   NaN),
       Emp(NA,      Delhi,    35,  40000, 1),
       Emp(TcsPad,  mumbai,   24,  30000, 0),
       Emp(Tcs,     Delhi,    18,  NaN,   1) >>

WithCountry(r) == [k \in EmployeeCols \cup {"Country"} |->
                      IF k = "Country" THEN India ELSE r[k]]

\* read_csv: the file's lines as a frame with a RangeIndex 0..n-1.
ReadCsv(cols, lines) ==
    [cols |-> cols,
     rows |-> [i \in DOMAIN lines |->
                 [idx |-> i - 1, v |-> [k \in cols |-> lines[i][k]]]]]

\* The scenario of the specification: exactly the three lines, five columns.
ScenarioFile == ReadCsv(EmployeeCols, SubSeq(Roster, 1, 3))

\* Every selection of at most MaxRows roster lines, in roster order, with a
\* constant Country column.
EmployeeFiles ==
    {ScenarioFile} \cup
    { ReadCsv(EmployeeCols \cup {"Country"},
              SelectAt([i \in DOMAIN Roster |-> WithCountry(Roster[i])], S)) :
        S \in {T \in SUBSET (DOMAIN Roster) : Cardinality(T) <= MaxRows} }

----------------------------------------------------------------------------
(* Script B: cells, columns and statements                                 *)
(*                                                                         *)
(* A text cell of script B is a string (the script compares and sorts      *)
(* text, it never edits it); a missing one is NoText.  A column name is a  *)
(* tuple: <<c>> for a column c of the file, <<c, category>> for the        *)
(* indicator column get_feature_names_out names c_category.                *)

NoText == "<NaN>"

Name(c) == <<c>>

FeatureName(c, category) == <<c, category>>

\* line 34
NonEssential == {Name("id"), Name("name"), Name("host_id"), Name("host_name"),
                 Name("last_review")}

\* lines 98-105
columns_to_scale == {Name("price"), Name("minimum_nights"), Name("number_of_reviews"),
                     Name("reviews_per_month"),
                     Name("calculated_host_listings_count"), Name("availability_365")}

ListingCols ==
    NonEssential \cup columns_to_scale
    \cup {Name("neighbourhood_group"), Name("neighbourhood"), Name("room_type")}

\* The text values of the listings in Python's str order (sorted()).
Lexicon == <<"Bronx", "Brooklyn", "Entire home/apt", "Harlem", "Kensington",
             "Manhattan", "Midtown", "Private room", "Shared room">>

TextRank(t) == CHOOSE i \in DOMAIN Lexicon : Lexicon[i] = t

\* SimpleImputer(strategy="most_frequent").fit: statistics_ of the column.
ImputerStatistic(d, c) == NumMode0(Col(d, c))

\* fit_transform raises ValueError on a frame without rows, and returns no
\* column for an all-missing one, which the assignment back then rejects.
ImputerFails(d, c) == d.rows = <<>> \/ ModeSet(Col(d, c), NaN) = {}

Impute(d, c) ==
    SetCol(d, c, [i \in DOMAIN d.rows |-> FillNa(d.rows[i].v[c], NaN, ImputerStatistic(d, c))])

\* sorted() of a set of text values.
RECURSIVE SortedTexts(_)
SortedTexts(S) ==
    IF S = {} THEN <<>>
    ELSE LET m == CHOOSE x \in S : \A y \in S : TextRank(x) <= TextRank(y)
         IN  <<m>> \o SortedTexts(S \ {m})

\* An encoder's categories_: the distinct values sorted, a missing value last.
Categories(d, c) ==
    LET vals == Range(Col(d, c))
    IN  IF NoText \in vals
        THEN Append(SortedTexts(vals \ {NoText}), NoText)
        ELSE SortedTexts(vals)

\* OrdinalEncoder: a value's code is its place in categories_, from 0; a
\* missing value stays missing.
OrdinalCode(cats, x) ==
    IF x = NoText THEN NaN ELSE (CHOOSE k \in DOMAIN cats : cats[k] = x) - 1

OrdinalEncode(d, c) ==
    SetCol(d, c, [i \in DOMAIN d.rows |-> OrdinalCode(Categories(d, c), d.rows[i].v[c])])

\* str(category) in a feature name.
CategoryText(x) == IF x = NoText THEN "nan" ELSE x

\* Faulty variant of OneHotFrame: the column is encoded in reverse row order,
\* so an indicator row no longer belongs to the frame row with its label.  C7 fails
\* with it.
OneHotFrame_Reversed(d, c) ==
    LET cats == Range(Categories(d, c))
        n    == Len(d.rows)
    IN  [cols |-> {FeatureName(c[1], CategoryText(x)) : x \in cats},
         rows |-> [i \in DOMAIN d.rows |->
                     [idx |-> i - 1,
                      v   |-> [k \in {FeatureName(c[1], CategoryText(x)) : x \in cats} |->
                                 IF k = FeatureName(c[1], CategoryText(d.rows[n + 1 - i].v[c]))
                                 THEN 1 ELSE 0]]]]

\* OneHotEncoder(sparse_output=False).fit_transform(df[[c]]) wrapped in a new
\* DataFrame: one indicator column per category, one row per row of df in df's
\* order, and a fresh RangeIndex.
OneHotFrame(d, c) ==
    LET cats == Range(Categories(d, c))
    IN  [cols |-> {FeatureName(c[1], CategoryText(x)) : x \in cats},
         rows |-> [i \in DOMAIN d.rows |->
                     [idx |-> i - 1,
                      v   |-> [k \in {FeatureName(c[1], CategoryText(x)) : x \in cats} |->
                                 IF k = FeatureName(c[1], CategoryText(d.rows[i].v[c]))
                                 THEN 1 ELSE 0]]]]

Labels(d) == {d.rows[i].idx : i \in DOMAIN d.rows}

RECURSIVE SortedLabels(_)
SortedLabels(S) ==
    IF S = {} THEN <<>>
    ELSE LET m == CHOOSE x \in S : \A y \in S : x <= y
         IN  <<m>> \o SortedLabels(S \ {m})

RowAt(d, label) == d.rows[CHOOSE i \in DOMAIN d.rows : d.rows[i].idx = label].v

\* pd.concat([a, b, c], axis=1): the frames joined on their index labels (an
\* outer join); a label a frame lacks gives missing cells in its columns.
\* With equal indexes the result keeps that index, otherwise the sorted union.
Concat3(a, b, c) ==
    LET labels == Labels(a) \cup Labels(b) \cup Labels(c)
        order  == IF Labels(b) = Labels(a) /\ Labels(c) = Labels(a)
                  THEN [i \in DOMAIN a.rows |-> a.rows[i].idx]
                  ELSE SortedLabels(labels)
        cell(f, l, k) == IF l \in Labels(f) THEN RowAt(f, l)[k] ELSE NaN
    IN  [cols |-> a.cols \cup b.cols \cup c.cols,
         rows |-> [i \in DOMAIN order |->
                     [idx |-> order[i],
                      v   |-> [k \in a.cols \cup b.cols \cup c.cols |->
                                 IF k \in a.cols THEN cell(a, order[i], k)
                                 ELSE IF k \in b.cols THEN cell(b, order[i], k)
                                 ELSE cell(c, order[i], k)]]]]

\* MinMaxScaler.fit: data_min_ and data_max_ ignore missing cells.
DataMin(d, c) ==
    LET v == Sorted(NotNull(Col(d, c), NaN)) IN IF v = <<>> THEN NaN ELSE v[1]

DataMax(d, c) ==
    LET v == Sorted(NotNull(Col(d, c), NaN)) IN IF v = <<>> THEN NaN ELSE v[Len(v)]

\* _handle_zeros_in_scale: a zero range is replaced by 1.
HandleZeros(range) == IF range = 0 THEN 1 ELSE range

\* MinMaxScaler.transform of one cell: X * scale_ + min_ with
\* scale_ = 1 / HandleZeros(max - min) and min_ = -min * scale_, as the exact
\* fraction num/den.  A missing cell stays missing: 0/0.
ScaledNaN == [num |-> 0, den |-> 0]

\* Faulty variant of ScaleCell: min_ is not added (X * scale_ alone).  C6 fails with it.
ScaleCell_NoShift(x, lo, hi) ==
    IF x = NaN \/ lo = NaN THEN ScaledNaN
    ELSE [num |-> x, den |-> HandleZeros(hi - lo)]

ScaleCell(x, lo, hi) ==
    IF x = NaN \/ lo = NaN THEN ScaledNaN
    ELSE [num |-> x - lo, den |-> HandleZeros(hi - lo)]

\* df[columns_to_scale] = scaler.fit_transform(df[columns_to_scale])
RECURSIVE ScaleColumns(_, _)
ScaleColumns(d, todo) ==
    IF todo = {} THEN d
    ELSE LET c == CHOOSE k \in todo : TRUE
         IN  ScaleColumns(
                SetCol(d, c, [i \in DOMAIN d.rows |->
                                ScaleCell(d.rows[i].v[c], DataMin(d, c), DataMax(d, c))]),
                todo \ {c})

----------------------------------------------------------------------------
(* Script B: input files                                                   *)

\* One line of AB_NYC_2019.csv; reviews_per_month in hundredths.
Listing(id, group, neighbourhood, room, price, nights, reviews, monthly, count, avail) ==
    LET f == [id |-> id, name |-> "listing", host_id |-> 100 + id, host_name |-> "host",
              last_review |-> "2019-05-21", neighbourhood_group |-> group,
              neighbourhood |-> neighbourhood, room_type |-> room, price |-> price,
              minimum_nights |-> nights, number_of_reviews |-> reviews,
              reviews_per_month |-> monthly, calculated_host_listings_count |-> count,
              availability_365 |-> avail]
    IN  [k \in ListingCols |-> f[k[1]]]

\* The lines listing files are drawn from: lines 1 and 6 agree in every scaled
\* column (a file of both has only constant columns), lines 3 and 4 have
\* missing cells, line 4 also a missing neighbourhood.
ListingRoster ==
    << Listing(1, "Manhattan", "Harlem",     "Private room",    150, 1,  9,   21,  2, 365),
       Listing(2, "Brooklyn",  "Kensington", "Entire home/apt", 89,  1,  45,  38,  2, 355),
       Listing(3, "Manhattan", "Midtown",    "Entire home/apt", 225, 3,  0,   NaN, 1, 365),
       Listing(4, "Bronx",     NoText,       "Shared room",     NaN, 1,  9,   21,  1, 0),
       Listing(5, "Brooklyn",  "Kensington", "Private room",    89,  10, 270, 464, 1, 194),
       Listing(6, "Manhattan", "Harlem",     "Private room",    150, 1,  9,   21,  2, 365) >>

\* Column sets a listing file may lack.
AbsentChoices == { {}, {Name("last_review")}, {Name("room_type")},
                   {Name("neighbourhood")}, {Name("availability_365")} }

ListingFiles ==
    { ReadCsv(ListingCols \ absent, SelectAt(ListingRoster, S)) :
        S \in {T \in SUBSET (DOMAIN ListingRoster) : Cardinality(T) <= MaxRows},
        absent \in AbsentChoices }

----------------------------------------------------------------------------
(* State                                                                   *)

VARIABLES
    script,   \* "A" or "B": which script this run executes
    pc,       \* the statement that runs next; "done"; "aborted"
    csv,      \* the input file, as read_csv parses it
    df,       \* the frame
    iqr,      \* A: column -> the bounds computed by remove_outliers_iqr for it
    neigh_df, \* B: the indicator frame of neighbourhood
    ng_df,    \* B: the indicator frame of neighbourhood_group
    fitted,   \* B: what the imputer, the encoders and the scaler learned
    files     \* the output files written so far

vars == <<script, pc, csv, df, iqr, neigh_df, ng_df, fitted, files>>

NoBounds == [nan |-> TRUE, lower8 |-> 0, upper8 |-> 0]

NoFrame == [cols |-> {}, rows |-> <<>>]

NothingFitted ==
    [statistics |-> NaN, room_type |-> <<>>, neighbourhood |-> <<>>,
     neighbourhood_group |-> <<>>, data_min |-> <<>>, data_max |-> <<>>]

InitA ==
    /\ script = "A"
    /\ csv \in EmployeeFiles
    /\ df = csv
    /\ pc = "drop_useless"
    /\ iqr = [c \in {"Age", "Salary"} |-> NoBounds]
    /\ neigh_df = NoFrame
    /\ ng_df = NoFrame
    /\ fitted = NothingFitted
    /\ files = {}

InitB ==
    /\ script = "B"
    /\ csv \in ListingFiles
    /\ df = csv
    /\ pc = "drop_non_essential"
    /\ iqr = [c \in {"Age", "Salary"} |-> NoBounds]
    /\ neigh_df = NoFrame
    /\ ng_df = NoFrame
    /\ fitted = NothingFitted
    /\ files = {}

\* Faulty variant of Stmt: a statement that names an absent column is skipped
\* and the script goes on (errors="ignore").  C8 fails with it.
Stmt_IgnoreMissing(s, at, needs, new, next) ==
    /\ script = s
    /\ pc = at
    /\ IF needs \subseteq df.cols
       THEN df' = new /\ pc' = next
       ELSE df' = df /\ pc' = next
    /\ UNCHANGED <<script, csv, iqr, neigh_df, ng_df, fitted, files>>

\* A statement of the running script that only changes the frame: it raises
\* KeyError when a column it names is absent, and the run ends there.
Stmt(s, at, needs, new, next) ==
    /\ script = s
    /\ pc = at
    /\ IF needs \subseteq df.cols
       THEN df' = new /\ pc' = next
       ELSE df' = df /\ pc' = "aborted"
    /\ UNCHANGED <<script, csv, iqr, neigh_df, ng_df, fitted, files>>

A_DropUselessCols == Stmt("A", "drop_useless", {}, DropUseless(df), "clean_text")

A_CleanTextFields == Stmt("A", "clean_text", {}, CleanText(df), "fill_company")

A_FillCompany ==
    Stmt("A", "fill_company", {"Company"}, FillCompanyMode(df), "fill_place")

A_FillPlace ==
    Stmt("A", "fill_place", {"Company", "Place"}, FillPlace(df), "fill_age")

A_FillAge == Stmt("A", "fill_age", {"Company", "Age"}, FillAge(df), "fill_salary")

A_FillSalary ==
    Stmt("A", "fill_salary", {"Company", "Salary"}, FillSalary(df), "convert_gender")

A_ConvertGender ==
    Stmt("A", "convert_gender", {"Gender"}, ConvertGender(df), "validate")

A_ValidateFilter ==
    Stmt("A", "validate", {"Age", "Salary", "Company", "Place", "Gender"},
         ValidateFilter(df), "outliers_age")

A_RemoveOutliers(at, column, next) ==
    /\ script = "A"
    /\ pc = at
    /\ IF column \in df.cols
       THEN /\ iqr' = [iqr EXCEPT ![column] = IqrBounds(df, column)]
            /\ df' = remove_outliers_iqr(df, column)
            /\ pc' = next
       ELSE UNCHANGED <<df, iqr>> /\ pc' = "aborted"
    /\ UNCHANGED <<script, csv, neigh_df, ng_df, fitted, files>>

A_RemoveOutliersAge == A_RemoveOutliers("outliers_age", "Age", "outliers_salary")

A_RemoveOutliersSalary == A_RemoveOutliers("outliers_salary", "Salary", "seniority")

A_Seniority == Stmt("A", "seniority", {"Age"}, AddSeniority(df), "export")

\* df.to_csv(name, index=False): the file holds the frame's columns and rows.
ToCsv(name, d) ==
    [name |-> name, cols |-> d.cols, lines |-> [i \in DOMAIN d.rows |-> d.rows[i].v]]

A_Export ==
    /\ script = "A"
    /\ pc = "export"
    /\ files' = files \cup {ToCsv("Cleaned_Employee.csv", df)}
    /\ pc' = "done"
    /\ UNCHANGED <<script, csv, df, iqr, neigh_df, ng_df, fitted>>

NextA ==
    \/ A_DropUselessCols
    \/ A_CleanTextFields
    \/ A_FillCompany
    \/ A_FillPlace
    \/ A_FillAge
    \/ A_FillSalary
    \/ A_ConvertGender
    \/ A_ValidateFilter
    \/ A_RemoveOutliersAge
    \/ A_RemoveOutliersSalary
    \/ A_Seniority
    \/ A_Export

\* line 34
B_DropNonEssential ==
    Stmt("B", "drop_non_essential", NonEssential, DropCols(df, NonEssential), "impute")

\* lines 40-41
B_ImputeReviews ==
    /\ script = "B"
    /\ pc = "impute"
    /\ IF Name("reviews_per_month") \in df.cols /\ ~ImputerFails(df, Name("reviews_per_month"))
       THEN /\ fitted' = [fitted EXCEPT
                            !.statistics = ImputerStatistic(df, Name("reviews_per_month"))]
            /\ df' = Impute(df, Name("reviews_per_month"))
            /\ pc' = "identify_categorical"
       ELSE UNCHANGED <<df, fitted>> /\ pc' = "aborted"
    /\ UNCHANGED <<script, csv, iqr, neigh_df, ng_df, files>>

\* lines 47-51: cat_columns is only printed.
B_IdentifyCategorical ==
    Stmt("B", "identify_categorical", {}, df, "ordinal")

\* lines 63-64
B_OrdinalRoomType ==
    /\ script = "B"
    /\ pc = "ordinal"
    /\ IF Name("room_type") \in df.cols
       THEN /\ fitted' = [fitted EXCEPT !.room_type = Categories(df, Name("room_type"))]
            /\ df' = OrdinalEncode(df, Name("room_type"))
            /\ pc' = "onehot_neigh"
       ELSE UNCHANGED <<df, fitted>> /\ pc' = "aborted"
    /\ UNCHANGED <<script, csv, iqr, neigh_df, ng_df, files>>

\* lines 71-75
B_OneHotNeighbourhood ==
    /\ script = "B"
    /\ pc = "onehot_neigh"
    /\ IF Name("neighbourhood") \in df.cols
       THEN /\ fitted' = [fitted EXCEPT
                            !.neighbourhood = Categories(df, Name("neighbourhood"))]
            /\ neigh_df' = OneHotFrame(df, Name("neighbourhood"))
            /\ pc' = "onehot_ng"
       ELSE UNCHANGED <<neigh_df, fitted>> /\ pc' = "aborted"
    /\ UNCHANGED <<script, csv, df, iqr, ng_df, files>>

\* lines 81-85
B_OneHotGroup ==
    /\ script = "B"
    /\ pc = "onehot_ng"
    /\ IF Name("neighbourhood_group") \in df.cols
       THEN /\ fitted' = [fitted EXCEPT
                            !.neighbourhood_group = Categories(df, Name("neighbourhood_group"))]
            /\ ng_df' = OneHotFrame(df, Name("neighbourhood_group"))
            /\ pc' = "concat"
       ELSE UNCHANGED <<ng_df, fitted>> /\ pc' = "aborted"
    /\ UNCHANGED <<script, csv, df, iqr, neigh_df, files>>

\* line 89
B_Concat == Stmt("B", "concat", {}, Concat3(df, neigh_df, ng_df), "drop_originals")

\* line 92
B_DropOriginals ==
    Stmt("B", "drop_originals", {Name("neighbourhood"), Name("neighbourhood_group")},
         DropCols(df, {Name("neighbourhood"), Name("neighbourhood_group")}), "scale")

\* lines 107-108
B_Scale ==
    /\ script = "B"
    /\ pc = "scale"
    /\ IF columns_to_scale \subseteq df.cols
       THEN /\ fitted' = [fitted EXCEPT
                            !.data_min = [c \in columns_to_scale |-> DataMin(df, c)],
                            !.data_max = [c \in columns_to_scale |-> DataMax(df, c)]]
            /\ df' = ScaleColumns(df, columns_to_scale)
            /\ pc' = "export"
       ELSE UNCHANGED <<df, fitted>> /\ pc' = "aborted"
    /\ UNCHANGED <<script, csv, iqr, neigh_df, ng_df, files>>

\* line 118
B_Export ==
    /\ script = "B"
    /\ pc = "export"
    /\ files' = files \cup {ToCsv("Final_Cleaned_AB_NYC_2019.csv", df)}
    /\ pc' = "done"
    /\ UNCHANGED <<script, csv, df, iqr, neigh_df, ng_df, fitted>>

NextB ==
    \/ B_DropNonEssential
    \/ B_ImputeReviews
    \/ B_IdentifyCategorical
    \/ B_OrdinalRoomType
    \/ B_OneHotNeighbourhood
    \/ B_OneHotGroup
    \/ B_Concat
    \/ B_DropOriginals
    \/ B_Scale
    \/ B_Export

Init == InitA \/ InitB

Next == NextA \/ NextB

Spec == Init /\ [][Next]_vars

----------------------------------------------------------------------------
(* Properties: shared vocabulary                                           *)

\* The statements of each script in code order.
OrderA == <<"drop_useless", "clean_text", "fill_company", "fill_place", "fill_age",
            "fill_salary", "convert_gender", "validate", "outliers_age",
            "outliers_salary", "seniority", "export", "done">>

OrderB == <<"drop_non_essential", "impute", "identify_categorical", "ordinal",
            "onehot_neigh", "onehot_ng", "concat", "drop_originals", "scale",
            "export", "done">>

Order == IF script = "A" THEN OrderA ELSE OrderB

Place(label) == CHOOSE i \in DOMAIN Order : Order[i] = label

\* The statement labelled `label` has run to completion.
Past(s, label) ==
    /\ script = s
    /\ pc # "aborted"
    /\ Place(pc) > Place(label)

\* The cell the row had in the input file.
Loaded(r, c) == csv.rows[r.idx + 1].v[c]

\* The rows of the frame in the same Company group as row i.
SameGroup(i) == {j \in DOMAIN df.rows : df.rows[j].v["Company"] = df.rows[i].v["Company"]}

\* The cells of column c the group of row i had in the input file, the
\* missing ones left out, text cleaned as STEP 4 cleans it.
LoadedGroupCells(i, c) ==
    LET g == SelectAt([j \in DOMAIN df.rows |-> j], SameGroup(i))
        x == [m \in DOMAIN g |-> Loaded(df.rows[g[m]], c)]
        v == NotNull(x, Missing(c))
    IN  IF c \in TextCols THEN [m \in DOMAIN v |-> CleanCell(v[m])] ELSE v

\* The statistic the specification names for a target column.
GroupStatistic(i, c) ==
    IF c = "Place" THEN TextMode0(LoadedGroupCells(i, c))
    ELSE IF c = "Age" THEN Median(LoadedGroupCells(i, c))
    ELSE Mean(LoadedGroupCells(i, c))

\* The cell holds no value: it is missing, or it was missing in the input
\* file and holds only the text STEP 4 makes of a missing cell.
NoValue(r, c) ==
    \/ r.v[c] = Missing(c)
    \/ c \in TextCols /\ Loaded(r, c) = NA /\ r.v[c] = CleanCell(NA)

----------------------------------------------------------------------------
(* C1: the scenario of the specification.  Script A run on the three-line  *)
(* file completes and exports a table in which every Company is "Tcs", the *)
(* age-70 line is absent, Gender reads "Male"/"Female", and the second     *)
(* line's missing Place and Age are filled from the Tcs group (Place with  *)
(* "Mumbai", Age with the median of 24 and 70).                            *)

C1_Scenario ==
    (script = "A" /\ csv = ScenarioFile) =>
        /\ pc # "aborted"
        /\ pc = "done" =>
             \A f \in files :
                /\ \A i \in DOMAIN f.lines :
                      /\ f.lines[i]["Company"] = Tcs
                      /\ f.lines[i]["Age"] # Years(70)
                      /\ f.lines[i]["Gender"] \in {Male, Female}
                /\ \E i \in DOMAIN f.lines :
                      /\ f.lines[i]["Salary"] = Rupees(32000)
                      /\ f.lines[i]["Place"] = Mumbai
                      /\ f.lines[i]["Age"] = Years(47)

----------------------------------------------------------------------------
(* C2: group-wise fill.  After the imputation statements (STEP 5, run      *)
(* after STEP 4), in every Company group that had a non-missing value of   *)
(* the target column in the input file no row has a missing target, and a  *)
(* row whose target was missing in the file holds the group's statistic:   *)
(* mode for Place, median for Age, mean for Salary.                        *)

GroupFilled(c) ==
    \A i \in DOMAIN df.rows :
        LoadedGroupCells(i, c) # <<>> =>
            /\ df.rows[i].v[c] # Missing(c)
            /\ Loaded(df.rows[i], c) = Missing(c) => df.rows[i].v[c] = GroupStatistic(i, c)

C2_GroupFill ==
    (script = "A" /\ pc = "convert_gender") =>
        GroupFilled("Place") /\ GroupFilled("Age") /\ GroupFilled("Salary")

\* The numeric half of C2 alone, which the script does satisfy.
C2_NumericFill ==
    (script = "A" /\ pc = "convert_gender") => GroupFilled("Age") /\ GroupFilled("Salary")

----------------------------------------------------------------------------
(* C3: Place fallback.  After the imputation statements, every row of a    *)
(* Company group in which no row had a Place in the input file has Place   *)
(* "Unknown".                                                              *)

C3_PlaceFallback ==
    (script = "A" /\ pc = "convert_gender") =>
        \A i \in DOMAIN df.rows :
            LoadedGroupCells(i, "Place") = <<>> => df.rows[i].v["Place"] = Unknown

----------------------------------------------------------------------------
(* C4: post-filter invariant.  From the end of STEP 7 through outlier      *)
(* removal, bucketizing and export, every remaining row has                *)
(* 18 <= Age <= 65, Salary >= 1000 and a value in Company, Place and       *)
(* Gender; a cell that was missing in the file counts as a value only if   *)
(* an imputation or recoding statement replaced it.                        *)

C4_PostFilter ==
    Past("A", "validate") =>
        \A i \in DOMAIN df.rows :
            /\ Ge(df.rows[i].v["Age"], MinAge * Unit)
            /\ Le(df.rows[i].v["Age"], MaxAge * Unit)
            /\ Ge(df.rows[i].v["Salary"], MinSalary * Unit)
            /\ \A c \in {"Company", "Place"} : ~NoValue(df.rows[i], c)
            /\ df.rows[i].v["Gender"] # NA

\* What the script does establish: the ranges, and no missing cell.
C4_RangesOnly ==
    Past("A", "validate") =>
        \A i \in DOMAIN df.rows :
            /\ Ge(df.rows[i].v["Age"], MinAge * Unit)
            /\ Le(df.rows[i].v["Age"], MaxAge * Unit)
            /\ Ge(df.rows[i].v["Salary"], MinSalary * Unit)
            /\ \A c \in {"Company", "Place", "Gender"} : df.rows[i].v[c] # NA

----------------------------------------------------------------------------
(* C5: IQR bounds.  Outlier removal runs on Age and then on Salary; each   *)
(* call keeps only rows whose value lies within [Q1 - 1.5 IQR, Q3 + 1.5    *)
(* IQR] of the frame as it was just before that call (so Salary's          *)
(* quartiles are those of the rows that survived the Age call), and after  *)
(* both calls every row still lies within the Age bounds of the first.     *)

AllWithin(d, column, b) == \A i \in DOMAIN d.rows : Within(d.rows[i].v[column], b)

IqrStep ==
    /\ (script = "A" /\ pc = "outliers_age" /\ pc' = "outliers_salary") =>
          /\ iqr'["Age"] = IqrBounds(df, "Age")
          /\ AllWithin(df', "Age", IqrBounds(df, "Age"))
    /\ (script = "A" /\ pc = "outliers_salary" /\ pc' = "seniority") =>
          /\ iqr'["Salary"] = IqrBounds(df, "Salary")
          /\ iqr'["Age"] = iqr["Age"]
          /\ AllWithin(df', "Salary", IqrBounds(df, "Salary"))
          /\ AllWithin(df', "Age", iqr["Age"])
    /\ (script = "A" /\ pc = "outliers_age" /\ pc' = "aborted") => FALSE
    /\ (script = "A" /\ pc = "outliers_salary" /\ pc' = "aborted") => FALSE

IqrKept ==
    Past("A", "outliers_salary") =>
        AllWithin(df, "Age", iqr["Age"]) /\ AllWithin(df, "Salary", iqr["Salary"])

C5_IqrBounds == [][IqrStep]_vars /\ []IqrKept

\* The frame script A has after STEP 7, recomputed from the input file.
AfterValidate(f) ==
    ValidateFilter(ConvertGender(FillSalary(FillAge(FillPlace(FillCompanyMode(
        CleanText(DropUseless(f))))))))

\* Both calls have run and each removed a row.
C5_Witness ==
    /\ script = "A"
    /\ pc = "seniority"
    /\ LET v == AfterValidate(csv)
           a == remove_outliers_iqr(v, "Age")
       IN  /\ Len(a.rows) < Len(v.rows)
           /\ Len(df.rows) < Len(a.rows)
           /\ df.rows # <<>>

----------------------------------------------------------------------------
(* C6: scaling range.  As claimed: after the scaling statement of script B *)
(* every value of each of the six scaled columns lies in [0, 1], every row *)
(* that held the column's minimum holds 0 and every row that held its      *)
(* maximum holds 1, also for a column whose minimum equals its maximum.    *)

IsZero(x) == x.den > 0 /\ x.num = 0
IsOne(x)  == x.den > 0 /\ x.num = x.den
InUnitInterval(x) == x.den > 0 /\ 0 <= x.num /\ x.num <= x.den

ScaleStep == script = "B" /\ pc = "scale" /\ pc' = "export"

C6_AsClaimed ==
    [][ScaleStep =>
         \A c \in columns_to_scale : \A i \in DOMAIN df.rows :
            /\ InUnitInterval(df'.rows[i].v[c])
            /\ df.rows[i].v[c] = DataMin(df, c) => IsZero(df'.rows[i].v[c])
            /\ df.rows[i].v[c] = DataMax(df, c) => IsOne(df'.rows[i].v[c])]_vars

(* C6 as amended: after the scaling statement a missing cell is still      *)
(* missing and every other value of a scaled column lies in [0, 1]; every  *)
(* row that held the column's minimum holds 0; every row that held its     *)
(* maximum holds 1 when the minimum is below the maximum, and 0 when they  *)
(* are equal.                                                              *)
C6_ScalingRange ==
    [][ScaleStep =>
         \A c \in columns_to_scale : \A i \in DOMAIN df.rows :
            IF df.rows[i].v[c] = NaN
            THEN df'.rows[i].v[c] = ScaledNaN
            ELSE /\ InUnitInterval(df'.rows[i].v[c])
                 /\ df.rows[i].v[c] = DataMin(df, c) => IsZero(df'.rows[i].v[c])
                 /\ df.rows[i].v[c] = DataMax(df, c) =>
                       IF DataMin(df, c) < DataMax(df, c)
                       THEN IsOne(df'.rows[i].v[c])
                       ELSE IsZero(df'.rows[i].v[c])]_vars

\* Scaled, with a column that has a range (its maximum at 1, its minimum at
\* 0), a constant column in a file of several lines, and a missing cell.
C6_Witness ==
    /\ script = "B"
    /\ pc = "export"
    /\ Len(df.rows) >= 2
    /\ \E c \in columns_to_scale :
          /\ fitted.data_min[c] < fitted.data_max[c]
          /\ \E i \in DOMAIN df.rows : IsOne(df.rows[i].v[c])
          /\ \E i \in DOMAIN df.rows : IsZero(df.rows[i].v[c])
    /\ \E c \in columns_to_scale :
          /\ fitted.data_min[c] = fitted.data_max[c]
          /\ \A i \in DOMAIN df.rows : IsZero(df.rows[i].v[c])
    /\ \E c \in columns_to_scale : \E i \in DOMAIN df.rows : df.rows[i].v[c] = ScaledNaN

----------------------------------------------------------------------------
(* C7: one-hot completeness.  Once the indicator frames are concatenated   *)
(* to the frame and the originals dropped, each of neighbourhood and       *)
(* neighbourhood_group with k distinct values in the file (a missing cell  *)
(* counting as the value "nan") has exactly k indicator columns, named     *)
(* from the column and the value; in every row exactly one of them is 1    *)
(* and the others 0, the 1 in the column named for the value that row had  *)
(* in the file.                                                            *)

Indicators(d, c) == {k \in d.cols : Len(k) = 2 /\ k[1] = c}

DistinctValues(c) == Range(Col(csv, Name(c)))

OneHotComplete(c) ==
    /\ Cardinality(Indicators(df, c)) = Cardinality(DistinctValues(c))
    /\ Indicators(df, c) = {FeatureName(c, CategoryText(x)) : x \in DistinctValues(c)}
    /\ \A i \in DOMAIN df.rows :
          /\ \A k \in Indicators(df, c) : df.rows[i].v[k] \in {0, 1}
          /\ Cardinality({k \in Indicators(df, c) : df.rows[i].v[k] = 1}) = 1
          /\ df.rows[i].idx + 1 \in DOMAIN csv.rows
          /\ df.rows[i].v[FeatureName(c, CategoryText(Loaded(df.rows[i], Name(c))))] = 1

C7_OneHot ==
    Past("B", "drop_originals") =>
        /\ Len(df.rows) = Len(csv.rows)
        /\ OneHotComplete("neighbourhood")
        /\ OneHotComplete("neighbourhood_group")

\* Merged, with several rows, at least two values in each source column, and
\* a row with a missing neighbourhood.
C7_Witness ==
    /\ script = "B"
    /\ pc = "scale"
    /\ Len(df.rows) >= 3
    /\ Cardinality(Indicators(df, "neighbourhood")) >= 3
    /\ Cardinality(Indicators(df, "neighbourhood_group")) >= 2
    /\ FeatureName("neighbourhood", "nan") \in df.cols
    /\ \E i \in DOMAIN df.rows : df.rows[i].v[FeatureName("neighbourhood", "nan")] = 1

----------------------------------------------------------------------------
(* C8: all-or-nothing export.  In both scripts the statements run strictly *)
(* in code order; the output file is written only by the last statement,   *)
(* with every earlier one completed; and when a statement fails (a column  *)
(* it names is absent, or the imputer rejects its input) no later          *)
(* statement runs and no output file is written.                           *)

\* The columns the statement at pc reads by name.
Referenced ==
    IF script = "A"
    THEN CASE pc = "fill_company"    -> {"Company"}
           [] pc = "fill_place"      -> {"Company", "Place"}
           [] pc = "fill_age"        -> {"Company", "Age"}
           [] pc = "fill_salary"     -> {"Company", "Salary"}
           [] pc = "convert_gender"  -> {"Gender"}
           [] pc = "validate"        -> {"Age", "Salary", "Company", "Place", "Gender"}
           [] pc = "outliers_age"    -> {"Age"}
           [] pc = "outliers_salary" -> {"Salary"}
           [] pc = "seniority"       -> {"Age"}
           [] OTHER                  -> {}
    ELSE CASE pc = "drop_non_essential" -> NonEssential
           [] pc = "impute"             -> {Name("reviews_per_month")}
           [] pc = "ordinal"            -> {Name("room_type")}
           [] pc = "onehot_neigh"       -> {Name("neighbourhood")}
           [] pc = "onehot_ng"          -> {Name("neighbourhood_group")}
           [] pc = "drop_originals"     -> {Name("neighbourhood"), Name("neighbourhood_group")}
           [] pc = "scale"              -> columns_to_scale
           [] OTHER                     -> {}

StageFails == pc \notin {"done", "aborted"} /\ ~(Referenced \subseteq df.cols)

InOrderStep ==
    /\ pc \notin {"done", "aborted"}
    /\ pc' = "aborted" \/ pc' = Order[Place(pc) + 1]
    /\ StageFails => pc' = "aborted"
    /\ pc' = "aborted" => files' = {}
    /\ files' # files => pc = "export" /\ pc' = "done"

ExportLast ==
    /\ files # {} => pc = "done"
    /\ pc = "done" => files # {}
    /\ pc = "aborted" => files = {}

C8_AllOrNothing == [][InOrderStep]_vars /\ []ExportLast

\* Script A aborted, without output, on a file whose Place column the
\* constant-column pruner removed.
C8_Witness ==
    /\ script = "A"
    /\ pc = "aborted"
    /\ files = {}
    /\ "Place" \in csv.cols
    /\ "Place" \notin df.cols
    /\ "Company" \in df.cols

----------------------------------------------------------------------------
(* C9: the row filter of script A (duplicate removal, 18 <= Age <= 65,     *)
(* Salary >= 1000, rows without Company, Place or Gender dropped) applied  *)
(* to its own output gives the same rows in the same order.                *)

C9_FilterIdempotent ==
    [][(script = "A" /\ pc = "validate" /\ pc' = "outliers_age") =>
          /\ df' = ValidateFilter(df)
          /\ ValidateFilter(df') = df']_vars

\* The filter ran and removed a duplicate, a row out of range and a row with
\* a missing cell, and kept at least two rows.
C9_Witness ==
    /\ script = "A"
    /\ pc = "outliers_age"
    /\ Len(df.rows) >= 2
    /\ LET before == ConvertGender(FillSalary(FillAge(FillPlace(FillCompanyMode(
                        CleanText(DropUseless(csv)))))))
       IN  /\ Len(drop_duplicates(before).rows) < Len(before.rows)
           /\ Len(AgeInRange(before).rows) < Len(before.rows)
           /\ Len(DropNa(before).rows) < Len(before.rows)

----------------------------------------------------------------------------
(* C10: Seniority is total.  No row reaches the bucketizer with an Age     *)
(* outside (17, 65], and every exported row has a Seniority: Junior for    *)
(* 17 < Age <= 25, Mid for 25 < Age <= 35, Senior for 35 < Age <= 50,      *)
(* Executive for 50 < Age <= 65, also for the non-integer ages the group   *)
(* median produces.                                                        *)

ExpectedSeniority(age, label) ==
    /\ label # NA
    /\ (17 * Unit < age /\ age <= 25 * Unit) => label = Junior
    /\ (25 * Unit < age /\ age <= 35 * Unit) => label = Mid
    /\ (35 * Unit < age /\ age <= 50 * Unit) => label = Senior
    /\ (50 * Unit < age /\ age <= 65 * Unit) => label = Executive

C10_SeniorityTotal ==
    /\ (script = "A" /\ pc = "seniority") =>
          \A i \in DOMAIN df.rows :
             17 * Unit < df.rows[i].v["Age"] /\ df.rows[i].v["Age"] <= 65 * Unit
    /\ (script = "A" /\ pc = "done") =>
          \A f \in files : \A i \in DOMAIN f.lines :
             ExpectedSeniority(f.lines[i]["Age"], f.lines[i]["Seniority"])

\* Exported, with a row whose Age is a non-integer group median and rows in
\* at least two different buckets.
C10_Witness ==
    /\ script = "A"
    /\ pc = "done"
    /\ \E f \in files :
          /\ \E i \in DOMAIN f.lines :
                /\ f.lines[i]["Age"] % Unit # 0
                /\ f.lines[i]["Seniority"] # NA
          /\ \E i, j \in DOMAIN f.lines : f.lines[i]["Seniority"] # f.lines[j]["Seniority"]

====
